---- MODULE Spec2Model ----
(***************************************************************************)
(* Model of the book-tracker Express application (src/api/index.js).  The  *)
(* file holds two variants of the same application: the Postgres one       *)
(* (lines 1-291) and the MySQL one (lines 293-587).  The variable          *)
(* `variant` says which of the two is running; it never changes.           *)
(*                                                                         *)
(* The store is the two tables users and books.  users is a sequence: the  *)
(* generated id of a row is its position (rows are never deleted).  books  *)
(* is a bag of rows (user_id, title, author, cover_url): the code never    *)
(* reads a book's id and never orders its queries.  Every client has a     *)
(* cookie jar holding the cookie "token".  POST /signUp reads the table,   *)
(* awaits, and writes it: it is split at that await, so that other         *)
(* requests can be served in between.                                      *)
(***************************************************************************)
EXTENDS Integers, Sequences, FiniteSets, Bags, TLC

VARIABLES variant, faults, now, users, books, cookie, signup, search, last

vars == <<variant, faults, now, users, books, cookie, signup, search, last>>

(***************************************************************************)
(* Bounds of the model.                                                    *)
(***************************************************************************)
MaxUsers == 2
MaxBooks == 3
MaxTime == 8
MaxDocs == 45
MaxIndex == 2

(***************************************************************************)
(* Constants of the program.                                               *)
(***************************************************************************)
TokenDays == 7
PageSize == 20
IsbnMinLen == 10
IsbnMaxLen == 13

Variants == {"pg", "mysql"}
Clients == {"c1", "c2"}

(***************************************************************************)
(* Form values.  A password is a sequence of characters, so that a         *)
(* password and its hash are values of the same kind; UndefinedPw is the   *)
(* password of a body that carries none.  The username "" stands for every *)
(* falsy Username.                                                         *)
(***************************************************************************)
UndefinedPw == <<"undefined">>
Usernames == {"", "a", "A"}
Passwords == {<<"p">>, <<"q">>, UndefinedPw}
Salts == {"s1"}
Titles == {"Dune", "Emma"}
Authors == {"Herbert", "Austen"}
CoverUrls == {"cover"}
BodyOwnerIds == 0 .. MaxUsers + 1

\* String.prototype.toUpperCase on the usernames of the model.
ToUpperCase(s) == IF s = "a" THEN "A" ELSE s

(***************************************************************************)
(* bcrypt.  A hash carries its version, cost and salt in front of the      *)
(* digest of the password; compare recomputes the hash of the candidate    *)
(* with the salt of the stored hash.  Both throw on a missing argument.    *)
(***************************************************************************)
BcryptHash(pw, salt) == <<"$2b$", "10", salt>> \o pw

BcryptCompare(pw, hash) ==
    /\ Len(hash) >= 3
    /\ hash = BcryptHash(pw, hash[3])

(***************************************************************************)
(* The session cookie and jsonwebtoken.                                    *)
(***************************************************************************)
NoCookie == [kind |-> "none", userId |-> 0, iat |-> 0, exp |-> 0, sig |-> "none"]
EmptyCookie == [kind |-> "empty", userId |-> 0, iat |-> 0, exp |-> 0, sig |-> "none"]

\* jwt.sign({ userId }, JWT_SECRET, { expiresIn: "7d" })
JwtSign(userId) ==
    [kind |-> "jwt", userId |-> userId, iat |-> now, exp |-> now + TokenDays,
     sig |-> "good"]

\* A token the server did not sign: made up, or a signed one altered.
Forged(userId) ==
    [kind |-> "jwt", userId |-> userId, iat |-> now, exp |-> now + TokenDays,
     sig |-> "bad"]

\* Mutant of JwtVerify: the expiry is not checked.
JwtVerifyIgnoringExpiry(token) == token.sig = "good"

\* jwt.verify(token, JWT_SECRET) returns instead of throwing.
JwtVerify(token) == token.sig = "good" /\ now < token.exp

\* !token
Falsy(token) == token.kind \in {"none", "empty"}

(***************************************************************************)
(* Responses.  `last` is the response to the request served last: what    *)
(* was rendered or where it redirects, whether it clears the cookie        *)
(* (cleared), whether a protected handler ran and for which user, and the  *)
(* number of rows the handler's last query touched (affected).             *)
(***************************************************************************)
Response(op, c, status, to, msg) ==
    [op |-> op, client |-> c, status |-> status, to |-> to, msg |-> msg,
     threw |-> FALSE, ran |-> FALSE, cleared |-> FALSE, userId |-> 0,
     affected |-> 0, view |-> <<>>]

NoResponse == Response("none", "none", "none", "", "")

\* An exception no handler catches: no response is written by the route.
Unhandled(op, c) == [Response(op, c, "error", "", "") EXCEPT !.threw = TRUE]

\* Outcomes of one store call: it returns, or (when faults are on) throws.
StoreOutcomes == IF faults THEN {TRUE, FALSE} ELSE {TRUE}

(***************************************************************************)
(* Queries on the users table.                                             *)
(***************************************************************************)
\* Mutant of UsersNamed: the name is upper-cased before the lookup.
UsersNamedUpperCased(name) ==
    {i \in 1 .. Len(users) : users[i].username = ToUpperCase(name)}

\* ids of the rows of SELECT ... FROM users WHERE username = name
UsersNamed(name) == {i \in 1 .. Len(users) : users[i].username = name}

\* username ILIKE pattern (Postgres /profileView)
ILike(name, pattern) ==
    \/ pattern = "%"
    \/ ToUpperCase(name) = ToUpperCase(pattern)

UsersLike(pattern) == {i \in 1 .. Len(users) : ILike(users[i].username, pattern)}

\* INSERT INTO users (username, password) VALUES (...)
InsertUser(name, hash) == Append(users, [username |-> name, password |-> hash])

(***************************************************************************)
(* Queries on the books table.                                             *)
(***************************************************************************)
BookRow(userId, title, author, coverUrl) ==
    [user_id |-> userId, title |-> title, author |-> author, cover_url |-> coverUrl]

BooksOf(userId) ==
    [r \in {x \in BagToSet(books) : x.user_id = userId} |-> books[r]]

BookBody(userId, title, author, coverUrl) ==
    [user_id |-> userId, title |-> title, author |-> author, coverUrl |-> coverUrl]

\* Mutant of InsertBook: the owner is taken from the request body.
InsertBookOfBodyOwner(userId, body) ==
    books (+) SetToBag({BookRow(body.user_id, body.title, body.author,
                                body.coverUrl)})

\* INSERT INTO books (user_id, title, author, cover_url) VALUES (req.userId, ...)
InsertBook(userId, body) ==
    books (+) SetToBag({BookRow(userId, body.title, body.author, body.coverUrl)})

\* Mutant of MatchesDelete: the owner is not compared.
MatchesAnyOwner(row, userId, title, author) ==
    row.title = title /\ row.author = author

\* WHERE user_id = ... AND title = ... AND author = ...
MatchesDelete(row, userId, title, author) ==
    row.user_id = userId /\ row.title = title /\ row.author = author

\* DELETE FROM books WHERE ...: the rows left
DeleteBooks(userId, title, author) ==
    [r \in {x \in BagToSet(books) : ~MatchesDelete(x, userId, title, author)}
        |-> books[r]]

(***************************************************************************)
(* POST /signUp, up to the await of the existence lookup.                  *)
(***************************************************************************)
NoSignUp == [active |-> FALSE, Username |-> "", Password |-> UndefinedPw]

SignUpCheck(c, Username, Password, confirmPassword) ==
    /\ ~signup[c].active
    /\ IF Username = "" \/ Password # confirmPassword
       THEN /\ last' = Response("signUp", c, "render", "signUp.ejs", "Invalid input")
            /\ UNCHANGED signup
       ELSE \E ok \in StoreOutcomes :
              IF ~ok
              THEN last' = Unhandled("signUp", c) /\ UNCHANGED signup
              ELSE IF UsersNamed(Username) # {}
              THEN /\ last' = Response("signUp", c, "render", "signUp.ejs",
                                       "Username taken")
                   /\ UNCHANGED signup
              ELSE /\ signup' = [signup EXCEPT ![c] =
                          [active |-> TRUE, Username |-> Username,
                           Password |-> Password]]
                   /\ UNCHANGED last
    /\ UNCHANGED <<variant, faults, now, users, books, cookie, search>>

(***************************************************************************)
(* POST /signUp, from bcrypt.hash to the response.                         *)
(***************************************************************************)
SignUpInsert(c, salt) ==
    /\ signup[c].active
    /\ Len(users) < MaxUsers
    /\ signup' = [signup EXCEPT ![c] = NoSignUp]
    /\ IF signup[c].Password = UndefinedPw
       THEN last' = Unhandled("signUp", c) /\ UNCHANGED users
       ELSE \E ok \in StoreOutcomes :
              IF ~ok
              THEN last' = Unhandled("signUp", c) /\ UNCHANGED users
              ELSE /\ users' = InsertUser(signup[c].Username,
                                          BcryptHash(signup[c].Password, salt))
                   /\ last' = Response("signUp", c, "render", "login.ejs",
                                       "Account created. Please log in.")
    /\ UNCHANGED <<variant, faults, now, books, cookie, search>>

(***************************************************************************)
(* POST /login.  rows[0] is any of the rows the unordered SELECT returns.  *)
(***************************************************************************)
Login(c, Username, Password) ==
    /\ \E ok \in StoreOutcomes :
         IF ~ok
         THEN last' = Unhandled("login", c) /\ UNCHANGED cookie
         ELSE IF UsersNamed(Username) = {}
         THEN /\ last' = Response("login", c, "render", "login.ejs",
                                  "Invalid credentials")
              /\ UNCHANGED cookie
         ELSE \E id \in UsersNamed(Username) :
                IF Password = UndefinedPw
                THEN last' = Unhandled("login", c) /\ UNCHANGED cookie
                ELSE IF ~BcryptCompare(Password, users[id].password)
                THEN /\ last' = Response("login", c, "render", "login.ejs",
                                         "Invalid credentials")
                     /\ UNCHANGED cookie
                ELSE /\ cookie' = [cookie EXCEPT ![c] = JwtSign(id)]
                     /\ last' = [Response("login", c, "redirect", "/profile", "")
                                    EXCEPT !.userId = id]
    /\ UNCHANGED <<variant, faults, now, users, books, signup, search>>

(***************************************************************************)
(* GET /                                                                   *)
(***************************************************************************)
Home(c) ==
    /\ \E ok \in StoreOutcomes :
         IF ~ok
         THEN last' = Unhandled("home", c) /\ UNCHANGED cookie
         ELSE /\ cookie' = [cookie EXCEPT ![c] = NoCookie]
              /\ last' = [Response("home", c, "render", "index.ejs", "")
                             EXCEPT !.cleared = TRUE]
    /\ UNCHANGED <<variant, faults, now, users, books, signup, search>>

(***************************************************************************)
(* GET /logout: a route of the MySQL variant only.  The Postgres variant   *)
(* registers none, and Express answers 404 without running any handler.    *)
(***************************************************************************)
Logout(c) ==
    /\ IF variant = "mysql"
       THEN /\ cookie' = [cookie EXCEPT ![c] = NoCookie]
            /\ last' = [Response("logout", c, "redirect", "/", "")
                           EXCEPT !.cleared = TRUE]
       ELSE /\ last' = Response("logout", c, "notfound", "", "")
            /\ UNCHANGED cookie
    /\ UNCHANGED <<variant, faults, now, users, books, signup, search>>

(***************************************************************************)
(* POST /profileView                                                       *)
(***************************************************************************)
ProfileView(c, user) ==
    /\ IF variant = "pg" /\ user = ""
       THEN last' = Response("profileView", c, "redirect", "/", "")
       ELSE \E ok \in StoreOutcomes :
              LET found == IF variant = "pg" THEN UsersLike(user)
                                             ELSE UsersNamed(user)
              IN  IF ~ok
                  THEN last' = Unhandled("profileView", c)
                  ELSE IF found = {}
                  THEN last' = Response("profileView", c, "render",
                                        "profileView.ejs", "No Books")
                  ELSE \E id \in found, ok2 \in StoreOutcomes :
                         IF ~ok2
                         THEN last' = Unhandled("profileView", c)
                         ELSE last' = [Response("profileView", c, "render",
                                                "profileView.ejs",
                                                IF variant = "pg"
                                                THEN users[id].username
                                                ELSE user)
                                          EXCEPT !.userId = id,
                                                 !.affected = BagCardinality(BooksOf(id))]
    /\ UNCHANGED <<variant, faults, now, users, books, cookie, signup, search>>

(***************************************************************************)
(* requireAuth                                                             *)
(***************************************************************************)
\* requireAuth reaches next()
AuthPasses(c) == ~Falsy(cookie[c]) /\ JwtVerify(cookie[c])

\* requireAuth answers itself: no token, or jwt.verify threw
AuthRejects(op, c) ==
    /\ cookie' = IF Falsy(cookie[c]) THEN cookie
                 ELSE [cookie EXCEPT ![c] = NoCookie]
    /\ last' = [Response(op, c, "redirect", "/", "")
                   EXCEPT !.cleared = ~Falsy(cookie[c])]
    /\ UNCHANGED <<users, books>>

\* The response of a protected handler that ran for req.userId
Ran(op, c, status, to, userId, affected) ==
    [Response(op, c, status, to, "") EXCEPT !.ran = TRUE, !.userId = userId,
                                            !.affected = affected]

(***************************************************************************)
(* GET /profile                                                            *)
(***************************************************************************)
Profile(c) ==
    /\ IF ~AuthPasses(c)
       THEN AuthRejects("profile", c)
       ELSE LET userId == cookie[c].userId
            IN  /\ \E ok \in StoreOutcomes :
                     IF ~ok \/ userId \notin 1 .. Len(users)
                     THEN last' = [Unhandled("profile", c) EXCEPT !.ran = TRUE,
                                                                 !.userId = userId]
                     ELSE last' = Ran("profile", c, "render", "profile.ejs", userId,
                                      BagCardinality(BooksOf(userId)))
                /\ UNCHANGED <<users, books, cookie>>
    /\ UNCHANGED <<variant, faults, now, signup, search>>

(***************************************************************************)
(* POST /addBook                                                           *)
(***************************************************************************)
AddBook(c, body) ==
    /\ IF ~AuthPasses(c)
       THEN AuthRejects("addBook", c)
       ELSE LET userId == cookie[c].userId
            IN  /\ BagCardinality(books) < MaxBooks
                /\ \E ok \in StoreOutcomes :
                     IF ~ok
                     THEN /\ last' = [Unhandled("addBook", c) EXCEPT !.ran = TRUE,
                                                                    !.userId = userId]
                          /\ UNCHANGED books
                     ELSE /\ books' = InsertBook(userId, body)
                          /\ last' = Ran("addBook", c, "redirect", "/profile",
                                         userId, 1)
                /\ UNCHANGED <<users, cookie>>
    /\ UNCHANGED <<variant, faults, now, signup, search>>

(***************************************************************************)
(* POST /deleteBook                                                        *)
(***************************************************************************)
DeleteBook(c, title, author) ==
    /\ IF ~AuthPasses(c)
       THEN AuthRejects("deleteBook", c)
       ELSE LET userId == cookie[c].userId
            IN  /\ \E ok \in StoreOutcomes :
                     IF ~ok
                     THEN /\ last' = [Unhandled("deleteBook", c) EXCEPT !.ran = TRUE,
                                                                       !.userId = userId]
                          /\ UNCHANGED books
                     ELSE /\ books' = DeleteBooks(userId, title, author)
                          /\ last' = Ran("deleteBook", c, "redirect", "/profile",
                                         userId,
                                         BagCardinality(books)
                                           - BagCardinality(DeleteBooks(userId, title, author)))
                /\ UNCHANGED <<users, cookie>>
    /\ UNCHANGED <<variant, faults, now, signup, search>>

(***************************************************************************)
(* The client's side: the cookie jar is the client's, and time passes.     *)
(***************************************************************************)
\* The client replaces its cookie by one the server did not issue.
Tamper(c, token) ==
    /\ token.sig # "good"
    /\ cookie' = [cookie EXCEPT ![c] = token]
    /\ UNCHANGED <<variant, faults, now, users, books, signup, search, last>>

\* One day passes.
Tick ==
    /\ now < MaxTime
    /\ now' = now + 1
    /\ UNCHANGED <<variant, faults, users, books, cookie, signup, search, last>>


(***************************************************************************)
(* POST /search.  A string is the sequence of its characters; a form field *)
(* is a string, missing, or (in a JSON or bracketed body) not a string.    *)
(***************************************************************************)
Digits == {"0", "1", "2", "3", "4", "5", "6", "7", "8", "9"}

Str(chars) == [type |-> "string", chars |-> chars]
Missing == [type |-> "undefined", chars |-> <<>>]
NotAString == [type |-> "other", chars |-> <<>>]

Repeat(ch, n) == [i \in 1 .. n |-> ch]

\* String.prototype.trim
RECURSIVE TrimStart(_)
TrimStart(chars) ==
    IF chars # <<>> /\ Head(chars) = " " THEN TrimStart(Tail(chars)) ELSE chars

RECURSIVE TrimEnd(_)
TrimEnd(chars) ==
    IF chars # <<>> /\ chars[Len(chars)] = " "
    THEN TrimEnd(SubSeq(chars, 1, Len(chars) - 1))
    ELSE chars

Trim(chars) == TrimEnd(TrimStart(chars))

\* /^\d{10,13}$/.test(chars)
IsIsbn(chars) ==
    /\ Len(chars) \in IsbnMinLen .. IsbnMaxLen
    /\ \A i \in 1 .. Len(chars) : chars[i] \in Digits

\* parseInt(index, 10): a number, or NaN
NaN == [nan |-> TRUE, val |-> 0]
Num(n) == [nan |-> FALSE, val |-> n]
ParseInt(index) == IF index.type = "int" THEN Num(index.val) ELSE NaN

\* Array.prototype.slice(start, end), NaN read as 0
Slice(seq, start, end) ==
    LET len == Len(seq)
        from == IF start < 0 THEN (IF len + start < 0 THEN 0 ELSE len + start)
                ELSE (IF start > len THEN len ELSE start)
        to == IF end < 0 THEN (IF len + end < 0 THEN 0 ELSE len + end)
              ELSE (IF end > len THEN len ELSE end)
    IN  SubSeq(seq, from + 1, to)

\* Array.prototype.join(", ")
RECURSIVE Join(_)
Join(names) ==
    IF names = <<>> THEN <<>>
    ELSE IF Len(names) = 1 THEN <<names[1]>>
    ELSE <<names[1], ", ">> \o Join(Tail(names))

\* addBook(isbn): the cover of an ISBN
CoverOfIsbn(isbn) ==
    <<"https://covers.openlibrary.org/b/isbn/">> \o isbn \o <<"-M.jpg">>

CoverOfId(id) == <<"https://covers.openlibrary.org/b/id/", ToString(id), "-M.jpg">>

\* The entry of a direct ISBN search
IsbnEntry(title, trimmedTitle) ==
    IF variant = "pg"
    THEN [title |-> <<"Book with ISBN ">> \o trimmedTitle,
          author |-> <<"Unknown Author">>,
          coverUrl |-> CoverOfIsbn(trimmedTitle),
          isbn |-> trimmedTitle]
    ELSE [title |-> <<"Book with ISBN ">> \o title,
          author |-> <<"Unknown Author">>,
          coverUrl |-> CoverOfIsbn(title)]

\* getIsbnFromName: the entries of the catalog's answer that have a cover
RECURSIVE CoversOf(_)
CoversOf(docs) ==
    IF docs = <<>> THEN <<>>
    ELSE LET doc == Head(docs)
         IN  (IF doc.cover_i # 0
              THEN << [title |-> doc.title,
                       author |-> Join(doc.author_name),
                       coverUrl |-> CoverOfId(doc.cover_i),
                       isbn |-> IF doc.isbn = <<>> THEN <<>> ELSE doc.isbn[1]] >>
              ELSE <<>>) \o CoversOf(Tail(docs))

GetIsbnFromName(answer) == IF answer.ok THEN CoversOf(answer.docs) ELSE <<>>

\* getImagesForPage(covers, start, end)
GetImagesForPage(covers, start, end) ==
    IF variant = "pg"
    THEN Slice(covers, start, end)
    ELSE LET page == Slice(covers, start, end)
         IN  [i \in 1 .. Len(page) |->
                [title |-> IF page[i].title = <<>> THEN <<"Unknown Title">>
                           ELSE page[i].title,
                 author |-> IF page[i].author = <<>> THEN <<"Unknown Author">>
                            ELSE page[i].author,
                 coverUrl |-> page[i].coverUrl]]

\* The first entry of the page asked for
PageStart(page) ==
    IF variant = "pg" THEN page.val * PageSize ELSE page.val

\* The view model given to bookSelection
SearchView(req, covers) ==
    LET \* index = "0" (MySQL app: index = 0) when the body has none
        index == IF req.index.type = "undefined"
                 THEN [type |-> "int", val |-> 0] ELSE req.index
        parsed == ParseInt(index)
        page == IF variant = "pg" /\ parsed.nan THEN Num(0) ELSE parsed
        \* slice(NaN, NaN) is slice(0, 0)
        shown == IF page.nan THEN GetImagesForPage(covers, 0, 0)
                 ELSE GetImagesForPage(covers, PageStart(page),
                                       PageStart(page) + PageSize)
    IN  IF variant = "pg"
        THEN [books |-> shown, pageQuantity |-> page,
              bookTitle |-> req.bookTitle, bookAuthor |-> req.bookAuthor,
              totalPages |-> (Len(covers) + PageSize - 1) \div PageSize]
        ELSE [books |-> shown, pageQuantity |-> page,
              bookTitle |-> req.bookTitle, bookAuthor |-> req.bookAuthor]

NoSearch ==
    [phase |-> "none", client |-> "none", bookTitle |-> Missing,
     bookAuthor |-> Missing, index |-> [type |-> "undefined", val |-> 0],
     calls |-> 0, covers |-> <<>>]

SearchRendered(covers) ==
    /\ search' = [search EXCEPT !.phase = "done", !.covers = covers]
    /\ last' = [Response("search", search.client, "render", "bookSelection", "")
                   EXCEPT !.view = SearchView(search, covers)]

\* The handler up to the await of getIsbnFromName
SearchBegin ==
    /\ search.phase = "received"
    /\ LET bookTitle == IF variant = "pg" /\ search.bookTitle.type = "undefined"
                        THEN Str(<<>>) ELSE search.bookTitle
       IN  IF bookTitle.type = "other"
           THEN /\ search' = [search EXCEPT !.phase = "done"]
                /\ last' = IF variant = "pg"
                           THEN [Response("search", search.client, "redirect", "/", "")
                                    EXCEPT !.threw = TRUE]
                           ELSE Unhandled("search", search.client)
           ELSE IF bookTitle.type = "string" /\ IsIsbn(Trim(bookTitle.chars))
           THEN SearchRendered(<<IsbnEntry(bookTitle.chars, Trim(bookTitle.chars))>>)
           ELSE /\ search' = [search EXCEPT !.phase = "catalog", !.calls = @ + 1]
                /\ UNCHANGED last
    /\ UNCHANGED <<variant, faults, now, users, books, cookie, signup>>

\* The catalog answers (or the call fails), and the handler finishes
SearchEnd(answer) ==
    /\ search.phase = "catalog"
    /\ SearchRendered(GetIsbnFromName(answer))
    /\ UNCHANGED <<variant, faults, now, users, books, cookie, signup>>

(***************************************************************************)
(* The application after start-up, on an empty database.                   *)
(***************************************************************************)
Init ==
    /\ variant \in Variants
    /\ faults = FALSE
    /\ now = 0
    /\ users = <<>>
    /\ books = EmptyBag
    /\ cookie = [c \in Clients |-> NoCookie]
    /\ signup = [c \in Clients |-> NoSignUp]
    /\ search = NoSearch
    /\ last = NoResponse

\* Sign-up, served concurrently to the clients.
Next ==
    \E c \in Clients :
        \/ \E u \in Usernames, p \in {<<"p">>, UndefinedPw},
              cp \in {<<"p">>, UndefinedPw} :
              SignUpCheck(c, u, p, cp)
        \/ \E salt \in Salts : SignUpInsert(c, salt)

Spec == Init /\ [][Next]_vars

\* Accounts: sign-up and login, served concurrently to the clients.
NextAccounts ==
    \E c \in Clients :
        \/ \E u \in Usernames, p \in Passwords, cp \in Passwords :
              SignUpCheck(c, u, p, cp)
        \/ \E salt \in Salts : SignUpInsert(c, salt)
        \/ \E u \in Usernames, p \in Passwords : Login(c, u, p)

SpecAccounts == Init /\ [][NextAccounts]_vars

(***************************************************************************)
(* The application on a database that holds two accounts already.          *)
(***************************************************************************)
StoredUsers ==
    << [username |-> "a", password |-> BcryptHash(<<"p">>, "s1")],
       [username |-> "A", password |-> BcryptHash(<<"q">>, "s1")] >>

InitStored ==
    /\ variant \in Variants
    /\ faults = FALSE
    /\ now = 0
    /\ users = StoredUsers
    /\ books = EmptyBag
    /\ cookie = [c \in Clients |-> NoCookie]
    /\ signup = [c \in Clients |-> NoSignUp]
    /\ search = NoSearch
    /\ last = NoResponse

BookBodies ==
    {BookBody(o, t, a, u) : o \in BodyOwnerIds, t \in Titles, a \in Authors,
                            u \in CoverUrls}

\* Collections: a client logs in, as one user or the other, and changes books.
NextBooks ==
    \/ \E u \in {"a", "A"}, p \in {<<"p">>, <<"q">>} : Login("c1", u, p)
    \/ \E id \in 1 .. Len(users) + 1 : Tamper("c1", Forged(id))
    \/ \E body \in BookBodies : AddBook("c1", body)
    \/ \E t \in Titles, a \in Authors : DeleteBook("c1", t, a)
    \/ Profile("c1")

SpecBooks == InitStored /\ [][NextBooks]_vars

SessionBodies == {BookBody(0, "Dune", "Herbert", "cover")}

\* Sessions: one client's cookie over the days.
NextSession ==
    \/ \E u \in {"a", "A"}, p \in {<<"p">>, <<"q">>} : Login("c1", u, p)
    \/ Logout("c1")
    \/ Home("c1")
    \/ \E t \in {NoCookie, EmptyCookie} \cup {Forged(id) : id \in 1 .. Len(users)} :
          Tamper("c1", t)
    \/ Tick
    \/ Profile("c1")
    \/ \E body \in SessionBodies : AddBook("c1", body)
    \/ DeleteBook("c1", "Dune", "Herbert")

SpecSession == InitStored /\ [][NextSession]_vars

(***************************************************************************)
(* The application with a store whose calls may throw.                     *)
(***************************************************************************)
InitFaults ==
    /\ variant \in Variants
    /\ faults = TRUE
    /\ now = 0
    /\ users = <<>>
    /\ books = EmptyBag
    /\ cookie = [c \in Clients |-> NoCookie]
    /\ signup = [c \in Clients |-> NoSignUp]
    /\ search = NoSearch
    /\ last = NoResponse

NextFaults ==
    \/ \E u \in {"", "a"}, p \in {<<"p">>, UndefinedPw}, cp \in {<<"p">>, UndefinedPw} :
          SignUpCheck("c1", u, p, cp)
    \/ \E salt \in Salts : SignUpInsert("c1", salt)
    \/ \E u \in {"", "a"}, p \in {<<"p">>, UndefinedPw} : Login("c1", u, p)
    \/ Home("c1")
    \/ \E user \in {"", "a", "A", "%"} : ProfileView("c1", user)
    \/ Profile("c1")
    \/ AddBook("c1", BookBody(0, "Dune", "Herbert", "cover"))
    \/ DeleteBook("c1", "Dune", "Herbert")

SpecFaults == InitFaults /\ [][NextFaults]_vars

(***************************************************************************)
(* One search request, of any client, and the catalog's answer to it.      *)
(***************************************************************************)
TitleChars(lead, digits, letters) ==
    Repeat(" ", lead) \o Repeat("9", digits) \o Repeat("x", letters)
        \o Repeat(" ", lead)

SearchTitles ==
    {Str(TitleChars(l, d, x)) :
        l \in 0 .. 1,
        d \in {0, IsbnMinLen - 1, IsbnMinLen, IsbnMaxLen, IsbnMaxLen + 1},
        x \in 0 .. 1}
    \cup {Missing, NotAString}

SearchIndexes ==
    {[type |-> "int", val |-> n] : n \in -1 .. MaxIndex}
    \cup {[type |-> "undefined", val |-> 0], [type |-> "junk", val |-> 0]}

Doc(i, gap) ==
    [title |-> <<"Title ", ToString(i)>>,
     author_name |-> <<"Frank", "Herbert">>,
     cover_i |-> IF gap > 0 /\ i % gap = 0 THEN 0 ELSE i,
     isbn |-> <<>>]

CatalogAnswers ==
    {[ok |-> TRUE, docs |-> [i \in 1 .. n |-> Doc(i, gap)]] :
        n \in 0 .. MaxDocs, gap \in {0, 2}}
    \cup {[ok |-> FALSE, docs |-> <<>>]}

InitSearch ==
    /\ variant \in Variants
    /\ faults = FALSE
    /\ now = 0
    /\ users = <<>>
    /\ books = EmptyBag
    /\ cookie = [c \in Clients |-> NoCookie]
    /\ signup = [c \in Clients |-> NoSignUp]
    /\ \E c \in Clients, t \in SearchTitles, i \in SearchIndexes,
          a \in {Missing, Str(<<"x">>)} :
          search = [phase |-> "received", client |-> c, bookTitle |-> t,
                    bookAuthor |-> a, index |-> i, calls |-> 0, covers |-> <<>>]
    /\ last = NoResponse

NextSearch ==
    \/ SearchBegin
    \/ \E answer \in CatalogAnswers : SearchEnd(answer)

SpecSearch == InitSearch /\ [][NextSearch]_vars

(***************************************************************************)
(*                            The claims                                   *)
(***************************************************************************)
\* The token of client c is signed by the server and less than 7 days old.
TokenHonoured(c) ==
    /\ cookie[c].kind = "jwt"
    /\ cookie[c].sig = "good"
    /\ now - cookie[c].iat < TokenDays

\* The step serves a protected request of client c (those of SpecSession).
ProtectedStep(c) ==
    \/ Profile(c)
    \/ \E body \in SessionBodies : AddBook(c, body)
    \/ DeleteBook(c, "Dune", "Herbert")

\* C1: a protected request (GET /profile, POST /addBook, POST /deleteBook)
\* reaches its handler only with a token whose signature verifies and that
\* was issued less than 7 days before; with a missing, badly signed or
\* expired token the handler is not run, users and books are unchanged, the
\* response redirects to "/" and the client holds no token afterwards.
C1_ProtectedNeedsValidToken ==
    [][\A c \in Clients :
          ProtectedStep(c) =>
             /\ last'.ran => TokenHonoured(c)
             /\ ~TokenHonoured(c) =>
                   /\ ~last'.ran
                   /\ users' = users
                   /\ books' = books
                   /\ last'.status = "redirect"
                   /\ last'.to = "/"
                   /\ cookie'[c].kind # "jwt"]_vars

\* C1 witness: on or after day 7 a protected request was answered by
\* requireAuth itself, which cleared the cookie it was sent.
C1_Witness ==
    /\ last.op \in {"profile", "addBook", "deleteBook"}
    /\ last.status = "redirect" /\ last.to = "/"
    /\ last.cleared /\ ~last.ran
    /\ now >= TokenDays
    /\ cookie["c1"] = NoCookie

\* C2: the row POST /addBook inserts is owned by the user id of the verified
\* token, whatever user_id the body carries, and every row of books is owned
\* by the id of a row of users.
C2_BookOwnerIsCaller ==
    [][/\ \A c \in Clients, body \in BookBodies :
             (last'.ran /\ ~last'.threw /\ AddBook(c, body)) =>
                books' = books (+) SetToBag({[user_id |-> cookie[c].userId,
                                              title |-> body.title,
                                              author |-> body.author,
                                              cover_url |-> body.coverUrl]})
       /\ \A row \in BagToSet(books') : row.user_id \in 1 .. Len(users')]_vars

\* C2 witness: user 2 added a book, and books holds a row of user 2.
C2_Witness ==
    /\ last.op = "addBook" /\ last.ran /\ last.userId = 2
    /\ \E row \in BagToSet(books) : row.user_id = 2

\* Some row of users has this username.
Taken(name) == \E i \in 1 .. Len(users) : users[i].username = name

\* C3 as stated: POST /signUp with a username that is in users always ends
\* with the sign-up form and "Username taken", and users is unchanged.
C3_TakenIsAlwaysConflict ==
    [][\A c \in Clients, u \in Usernames, p \in Passwords, cp \in Passwords :
          (Taken(u) /\ SignUpCheck(c, u, p, cp)) =>
             /\ last'.status = "render"
             /\ last'.to = "signUp.ejs"
             /\ last'.msg = "Username taken"
             /\ users' = users]_vars

\* C3 amended: POST /signUp with a username that is in users ends at once
\* with the sign-up form, adds and changes no row of users and leaves no
\* insert pending; the message is "Username taken" when the password equals
\* its confirmation and "Invalid input" when it does not.
C3_TakenNeverCreates ==
    [][\A c \in Clients, u \in Usernames, p \in Passwords, cp \in Passwords :
          (Taken(u) /\ SignUpCheck(c, u, p, cp)) =>
             /\ last'.status = "render"
             /\ last'.to = "signUp.ejs"
             /\ last'.msg = IF p = cp THEN "Username taken" ELSE "Invalid input"
             /\ users' = users
             /\ signup' = signup]_vars

\* C3 witness: a sign-up was answered "Username taken" while users holds a row.
C3_Witness ==
    /\ last.op = "signUp" /\ last.msg = "Username taken"
    /\ Len(users) >= 1

\* C4: no two rows of users have the same username.
C4_UsernamesUnique ==
    \A i \in 1 .. Len(users), j \in 1 .. Len(users) :
        users[i].username = users[j].username => i = j

\* C5: the password stored by a sign-up is never the plaintext password, and
\* a login with the username and the password of a row a sign-up created is
\* answered with a redirect to /profile and a token for the id of a row with
\* that username and that stored password.
C5_SignUpThenLogin ==
    /\ [](\A i \in 1 .. Len(users) : users[i].password \notin Passwords)
    /\ [][\A c \in Clients, i \in 1 .. Len(users), p \in Passwords \ {UndefinedPw} :
             (/\ Login(c, users[i].username, p)
              /\ \E salt \in Salts : users[i].password = BcryptHash(p, salt)) =>
                /\ last'.status = "redirect"
                /\ last'.to = "/profile"
                /\ cookie'[c].kind = "jwt"
                /\ cookie'[c].sig = "good"
                /\ cookie'[c].userId \in
                      {j \in 1 .. Len(users) :
                          /\ users[j].username = users[i].username
                          /\ users[j].password = users[i].password}]_vars

\* C6: POST /deleteBook of an authenticated caller with (title, author)
\* leaves no row of the caller with that title and author, leaves every
\* other row with the number of copies it had, and ends with the redirect to
\* /profile; with no matching row, books is unchanged.
C6_DeleteRemovesExactlyMatches ==
    [][\A c \in Clients, t \in Titles, a \in Authors :
          (TokenHonoured(c) /\ DeleteBook(c, t, a)) =>
             /\ \A row \in BagToSet(books) \cup BagToSet(books') :
                   CopiesIn(row, books') =
                      IF /\ row.user_id = cookie[c].userId
                         /\ row.title = t
                         /\ row.author = a
                      THEN 0
                      ELSE CopiesIn(row, books)
             /\ last'.status = "redirect"
             /\ last'.to = "/profile"
             /\ ~last'.threw]_vars

\* C6 witness: a delete removed two rows at once and left another row.
C6_Witness ==
    /\ last.op = "deleteBook" /\ last.ran
    /\ last.affected >= 2
    /\ books # EmptyBag

\* The title sent is a string of 10 to 13 digits.
NumericQuery ==
    /\ search.bookTitle.type = "string"
    /\ Len(search.bookTitle.chars) \in 10 .. 13
    /\ \A i \in 1 .. Len(search.bookTitle.chars) :
          search.bookTitle.chars[i] \in Digits

\* C7: a search for a string of 10 to 13 digits makes no call to the catalog
\* and its result is one entry whose isbn is the string.
C7_IsbnSearchIsLocal ==
    (search.phase = "done" /\ NumericQuery) =>
        /\ search.calls = 0
        /\ Len(search.covers) = 1
        /\ "isbn" \in DOMAIN search.covers[1]
        /\ search.covers[1].isbn = search.bookTitle.chars

\* What a page shows of an entry.
Shown(entry) ==
    [title |-> entry.title, author |-> entry.author, coverUrl |-> entry.coverUrl]

\* C8: the answer to a search with page index p over n entries with a cover
\* holds the entries 20*p .. 20*p+19 of this request's result, in order, and
\* reports totalPages = ceil(n / 20).
C8_PageIsSliceOfTwenty ==
    (/\ search.phase = "done"
     /\ last.status = "render"
     /\ search.index.type = "int"
     /\ search.index.val >= 0) =>
        LET n == Len(search.covers)
            first == 20 * search.index.val
            size == IF n - first >= 20 THEN 20
                    ELSE IF n - first > 0 THEN n - first ELSE 0
        IN  /\ Len(last.view.books) = size
            /\ \A i \in 1 .. size :
                  Shown(last.view.books[i]) = Shown(search.covers[first + i])
            /\ "totalPages" \in DOMAIN last.view
            /\ last.view.totalPages * 20 >= n
            /\ (last.view.totalPages - 1) * 20 < n \/ n = 0
            /\ n = 0 => last.view.totalPages = 0

\* C9: a client comes to hold a token the server honours only by a login
\* that succeeds; GET /logout clears its cookie; and while it holds no such
\* token its protected requests are redirected to "/" and leave users and
\* books as they are.
C9_LogoutEndsSession ==
    [][\A c \in Clients :
          /\ (~TokenHonoured(c) /\ TokenHonoured(c)') =>
                /\ \E u \in Usernames, p \in Passwords : Login(c, u, p)
                /\ last'.status = "redirect" /\ last'.to = "/profile"
          /\ Logout(c) => (cookie'[c] = NoCookie /\ ~TokenHonoured(c)')
          /\ (ProtectedStep(c) /\ ~TokenHonoured(c)) =>
                /\ last'.status = "redirect" /\ last'.to = "/"
                /\ users' = users /\ books' = books]_vars

\* C10: a request in which an exception was raised ends with the redirect to
\* "/".
C10_ExceptionsRedirectHome ==
    last.threw => (last.status = "redirect" /\ last.to = "/")

====
